---- MODULE Spec2Model ----
(***************************************************************************)
(* A model of htmltest's test session (src/htmltest/htmltest.go): Test,    *)
(* testDocuments, testDocument, postChecks and CountErrors, together with  *)
(* the collaborators the session drives (issue store, reference cache,     *)
(* fetch limiter, reference checker), which are modelled from the design   *)
(* description because their code lives in other packages.                 *)
(***************************************************************************)
EXTENDS Integers, Sequences, FiniteSets, Bags, TLC

(* ------------------------------ bounds --------------------------------- *)
\* number of documents Discover() finds
MaxDocs == 2
\* largest DocumentConcurrencyLimit tried
MaxD == 2
\* largest HTTPConcurrencyLimit tried
MaxM == 2
\* largest CacheExpires tried
MaxTTL == 2
\* the wall clock runs from 0 to MaxNow
MaxNow == 2

\* normalized reference keys; 0 stands for "attribute absent"
Keys == {1, 2}
NoKey == 0
NoDoc == 0
NoEntry == [status |-> "none", t |-> 0]

LevelWarning == "warning"
LevelError == "error"

(* ------------------------------ inputs --------------------------------- *)
\* A node of interest: its tag, the key its checked attribute normalizes to,
\* and whether it is a <link rel="icon">.
Node(tag, key, icon) == [tag |-> tag, key |-> key, icon |-> icon]

\* The documents a site may hold: node list, doctype present, parse succeeds.
DocA == [nodes |-> <<Node("a", 1, FALSE)>>, doctype |-> TRUE, parseOK |-> TRUE]
DocB == [nodes |-> <<Node("a", 1, FALSE), Node("link", 2, TRUE)>>,
         doctype |-> FALSE, parseOK |-> TRUE]
DocV == [nodes |-> <<Node("img", NoKey, FALSE), Node("video", 2, FALSE)>>,
         doctype |-> TRUE, parseOK |-> TRUE]
DocBad == [nodes |-> <<>>, doctype |-> TRUE, parseOK |-> FALSE]
\* a document with two links to one and the same reference
DocLinks == [nodes |-> <<Node("a", 1, FALSE), Node("a", 1, FALSE)>>,
             doctype |-> TRUE, parseOK |-> TRUE]

VARIABLES
  opts,        \* hT.opts, the merged options
  env,         \* the world: root directory, site, broken references
  mainpc,      \* position of the calling task inside Test/testDocuments
  di,          \* index of the range loop over documentStore.Documents
  wg,          \* sync.WaitGroup counter
  conc,        \* number of tokens in concChannel
  http,        \* number of tokens in hT.httpChannel
  pc,          \* position of each document's testDocument activation
  tmode,       \* how testDocument was entered: "go" (goroutine) or "call"
  ni,          \* index into document.NodesOfInterest
  ci,          \* index into the checks of the current node
  res,         \* status the current check obtained
  favicon,     \* document.State.FaviconPresent
  issues,      \* issueStore: the stored issues, in insertion order
  out,         \* what the issue store has printed, in order
  cache,       \* refCache: key -> entry
  inflight,    \* refCache: keys with a resolution in flight
  now,         \* wall clock, as last read by the cache
  cacheWritten,\* refCache.WriteStore was called
  logWritten,  \* issueStore.WriteLog was called
  calls,       \* history: resolver invocations per key
  seen,        \* history: statuses callers obtained per key
  staleSeen,   \* history: keys whose entry was found expired
  tested,      \* history: completed testDocument activations per document
  checks,      \* history: the checker calls each document's test has made
  released     \* history: concChannel receives per document task

\* the documents of hT.documentStore.Documents, by position
Docs == DOMAIN env.documents

vars == <<opts, env, mainpc, di, wg, conc, http, pc, tmode, ni, ci, res,
          favicon, issues, out, cache, inflight, now, cacheWritten,
          logWritten, calls, seen, staleSeen, tested, checks, released>>

(* ------------------------- session construction ------------------------ *)
\* Test, lines 42-44: the issue store prints immediately iff LogSort is "seq"
PrintImmediately == opts.LogSort = "seq"

\* the fetch limiter sized by the document limit
HttpChannelCapOfDocs == opts.DocumentConcurrencyLimit
\* Test, lines 60-61: capacity of hT.httpChannel
HttpChannelCap == opts.HTTPConcurrencyLimit

\* Test, lines 63-68: the path NewRefCache is given; "" when caching is off
CachePath == IF opts.EnableCache THEN "cache" ELSE ""

\* an expiry one unit too short
RefCacheShortTTL == opts.CacheExpires - 1
\* an expiry one unit too long
RefCacheLongTTL == opts.CacheExpires + 1
\* Test, line 68: the expiry NewRefCache is given
RefCacheTTL == opts.CacheExpires

\* a channel made one slot too narrow
ConcChannelCapNarrow == opts.DocumentConcurrencyLimit - 1
\* a channel made one slot too wide
ConcChannelCapWide == opts.DocumentConcurrencyLimit + 1
\* testDocuments, line 131: capacity of concChannel
ConcChannelCap == opts.DocumentConcurrencyLimit

\* the advisory raised at Error level
AdvisoryAsError ==
  [level |-> LevelError, text |-> "concurrent", ref |-> NoKey,
   doc |-> NoDoc, by |-> NoDoc]
\* testDocuments, lines 125-128: the concurrent-mode advisory (no Document)
AdvisoryIssue ==
  [level |-> LevelWarning, text |-> "concurrent", ref |-> NoKey,
   doc |-> NoDoc, by |-> NoDoc]

\* postChecks, lines 212-215: the favicon issue; the Issue literal sets Level
\* and Message only, so its Document is nil.  "by" is history: the document
\* whose test raised it.
FaviconIssue(d) ==
  [level |-> LevelError, text |-> "favicon missing", ref |-> NoKey,
   doc |-> NoDoc, by |-> d]

(* ------------------------------ issue store ---------------------------- *)
\* checkDoctype's issue, owned by the document
DoctypeIssue(d) ==
  [level |-> LevelError, text |-> "doctype missing", ref |-> NoKey,
   doc |-> d, by |-> d]

\* the reference checker's issue for a failed resolution, owned by the document
BrokenIssue(d, k) ==
  [level |-> LevelError, text |-> "broken", ref |-> k, doc |-> d, by |-> d]

\* IssueStore.AddIssue: append under the store's lock, print if immediate
AddedIssues(iss) == Append(issues, iss)
AddedOut(iss) == IF PrintImmediately THEN Append(out, iss) ELSE out

\* IssueStore.Count(level): walk the stored issues
RECURSIVE CountFrom(_, _, _)
CountFrom(s, level, i) ==
  IF i > Len(s) THEN 0
  ELSE (IF s[i].level = level THEN 1 ELSE 0) + CountFrom(s, level, i + 1)
Count(level) == CountFrom(issues, level, 1)

\* IssueStore.PrintDocumentIssues(document): the stored issues owned by it
DocumentIssues(d) == SelectSeq(issues, LAMBDA x : x.doc = d)

\* a count that takes in the warnings too
CountErrorsAndWarnings == Count(LevelError) + Count(LevelWarning)
\* CountErrors, lines 220-222
CountErrors == Count(LevelError)

\* CountDocuments, lines 225-227
CountDocuments == Len(env.documents)

(* --------------------------- testDocument ------------------------------ *)
Check(fn, attr) == [fn |-> fn, attr |-> attr]

\* a video element checked for its source only
VideoAttrsSrcOnly == <<"src">>
\* testDocument, lines 190-194: the attributes of a video element, in order
VideoAttrs == <<"src", "poster">>

\* testDocument, lines 157-199: the checker calls made for a node, in order
ChecksFor(tag) ==
  CASE tag = "a" ->
         IF opts.CheckAnchors THEN <<Check("checkLink", "")>> ELSE <<>>
    [] tag = "link" ->
         IF opts.CheckLinks THEN <<Check("checkLink", "")>> ELSE <<>>
    [] tag = "img" ->
         IF opts.CheckImages THEN <<Check("checkImg", "")>> ELSE <<>>
    [] tag = "script" ->
         IF opts.CheckScripts THEN <<Check("checkScript", "")>> ELSE <<>>
    [] tag = "meta" ->
         IF opts.CheckMeta THEN <<Check("checkMeta", "")>> ELSE <<>>
    [] tag = "area" ->
         IF opts.CheckGeneric THEN <<Check("checkGeneric", "href")>> ELSE <<>>
    [] tag \in {"blockquote", "del", "ins", "q"} ->
         IF opts.CheckGeneric THEN <<Check("checkGeneric", "cite")>> ELSE <<>>
    [] tag \in {"iframe", "input", "audio", "embed", "source", "track"} ->
         IF opts.CheckGeneric THEN <<Check("checkGeneric", "src")>> ELSE <<>>
    [] tag = "video" ->
         IF opts.CheckGeneric
         THEN [a \in DOMAIN VideoAttrs |-> Check("checkGeneric", VideoAttrs[a])]
         ELSE <<>>
    [] tag = "object" ->
         IF opts.CheckGeneric THEN <<Check("checkGeneric", "data")>> ELSE <<>>
    [] OTHER -> <<>>

\* a node list with the repeated nodes dropped
RECURSIVE Distinct(_)
Distinct(q) ==
  IF q = <<>> THEN <<>>
  ELSE LET r == Distinct(SubSeq(q, 1, Len(q) - 1)) IN
       IF \E i \in DOMAIN r : r[i] = q[Len(q)] THEN r ELSE Append(r, q[Len(q)])
\* a traversal that visits each distinct node once
NodesOfDistinct(d) == Distinct(env.documents[d].nodes)
\* document.NodesOfInterest after Parse
NodesOf(d) == env.documents[d].nodes

\* the node and the check a document's activation is at
CurNode(d) == NodesOf(d)[ni[d]]
CurChecks(d) == ChecksFor(CurNode(d).tag)
\* the normalized key of the reference the current check extracts
CurKey(d) == CurNode(d).key

\* the live status of a reference: what the resolver's probe finds
Live(k) == IF k \in env.broken THEN "invalid" ELSE "valid"

\* RefCache: an entry is fresh iff now - timestamp < TTL
Fresh(e, t) == e.status # "none" /\ t - e.t < RefCacheTTL

\* history: an entry read at time t is older than the configured CacheExpires
Expired(e, t) == e.status # "none" /\ t - e.t >= opts.CacheExpires

\* positions of testDocument at which the activation is inside the function
Inside == {"parse", "doctype", "node", "resolve", "wait", "acquire", "probe",
           "store", "emit", "post", "flush"}
\* positions at which a resolver invocation is running
Resolving == {"acquire", "probe", "store"}

\* the first position at or after (n, c) that holds a check, else past the end
RECURSIVE After(_, _, _)
After(d, n, c) ==
  IF n > Len(NodesOf(d)) THEN [n |-> n, c |-> 1]
  ELSE IF c <= Len(ChecksFor(NodesOf(d)[n].tag)) THEN [n |-> n, c |-> c]
  ELSE After(d, n + 1, 1)

\* where the activation goes once the check at (ni, ci) is over
Advance(d) ==
  LET p == After(d, ni[d], ci[d] + 1) IN
  /\ ni' = [ni EXCEPT ![d] = p.n]
  /\ ci' = [ci EXCEPT ![d] = p.c]
  /\ pc' = [pc EXCEPT ![d] = IF p.n > Len(NodesOf(d)) THEN "post" ELSE "node"]

\* the process is running: AbortWith and an unrecovered panic end it
Alive == mainpc \notin {"aborted", "crashed"}

\* testDocument, line 150: document.Parse(); a document that cannot be read
\* panics (output.CheckErrorPanic)
Parse(d) ==
  /\ Alive /\ pc[d] = "parse"
  /\ pc' = [pc EXCEPT ![d] = IF env.documents[d].parseOK THEN "doctype"
                             ELSE "panic"]
  /\ UNCHANGED <<opts, env, mainpc, di, wg, conc, http, tmode, ni, ci, res,
                 favicon, issues, out, cache, inflight, now, cacheWritten,
                 logWritten, calls, seen, staleSeen, tested, released, checks>>

\* testDocument, lines 152-154: checkDoctype, then the range loop is entered
Doctype(d) ==
  /\ Alive /\ pc[d] = "doctype"
  /\ LET miss == opts.CheckDoctype /\ ~env.documents[d].doctype
         p == After(d, 1, 1) IN
     /\ issues' = IF miss THEN AddedIssues(DoctypeIssue(d)) ELSE issues
     /\ out' = IF miss THEN AddedOut(DoctypeIssue(d)) ELSE out
     /\ ni' = [ni EXCEPT ![d] = p.n]
     /\ ci' = [ci EXCEPT ![d] = p.c]
     /\ pc' = [pc EXCEPT ![d] = IF p.n > Len(NodesOf(d)) THEN "post"
                                ELSE "node"]
  /\ UNCHANGED <<opts, env, mainpc, di, wg, conc, http, tmode, res, favicon,
                 cache, inflight, now, cacheWritten, logWritten, calls, seen,
                 staleSeen, tested, released, checks>>

\* testDocument, lines 156-200: one checker call of the current node begins.
\* The checker extracts the attribute; checkLink notes a favicon link in the
\* document state; an absent attribute emits nothing.
BeginCheck(d) ==
  /\ Alive /\ pc[d] = "node"
  /\ favicon' = [favicon EXCEPT ![d] =
                   @ \/ (CurChecks(d)[ci[d]].fn = "checkLink" /\ CurNode(d).icon)]
  /\ IF CurKey(d) = NoKey
     THEN Advance(d)
     ELSE /\ pc' = [pc EXCEPT ![d] = "resolve"]
          /\ UNCHANGED <<ni, ci>>
  /\ checks' = [checks EXCEPT ![d] = Append(@, CurChecks(d)[ci[d]])]
  /\ UNCHANGED <<opts, env, mainpc, di, wg, conc, http, tmode, res, issues,
                 out, cache, inflight, now, cacheWritten, logWritten, calls,
                 seen, staleSeen, tested, released>>

(* --------------------------- RefCache.Resolve -------------------------- *)
\* Resolve, first step, under the cache's lock: a fresh entry is returned at
\* once; a key in flight makes the caller wait; otherwise the key is marked
\* in flight and the resolver is invoked.
Lookup(d) ==
  /\ Alive /\ pc[d] = "resolve"
  /\ \E t \in now..env.horizon : now' = t
  /\ LET k == CurKey(d)
         e == cache[k] IN
     /\ staleSeen' = IF Expired(e, now')
                     THEN staleSeen \cup {k} ELSE staleSeen
     /\ IF Fresh(e, now')
        THEN /\ res' = [res EXCEPT ![d] = e.status]
             /\ seen' = [seen EXCEPT ![k] = @ \cup {e.status}]
             /\ pc' = [pc EXCEPT ![d] = "emit"]
             /\ UNCHANGED <<inflight, calls>>
        ELSE IF k \in inflight
        THEN /\ pc' = [pc EXCEPT ![d] = "wait"]
             /\ UNCHANGED <<res, seen, inflight, calls>>
        ELSE /\ inflight' = inflight \cup {k}
             /\ calls' = [calls EXCEPT ![k] = @ + 1]
             /\ pc' = [pc EXCEPT ![d] = "acquire"]
             /\ UNCHANGED <<res, seen>>
  /\ UNCHANGED <<opts, env, mainpc, di, wg, conc, http, tmode, ni, ci,
                 favicon, issues, out, cache, cacheWritten, logWritten,
                 tested, released, checks>>

\* the resolver takes a fetch token: hT.httpChannel <- true
Acquire(d) ==
  /\ Alive /\ pc[d] = "acquire"
  /\ http < HttpChannelCap
  /\ http' = http + 1
  /\ pc' = [pc EXCEPT ![d] = "probe"]
  /\ UNCHANGED <<opts, env, mainpc, di, wg, conc, tmode, ni, ci, res, favicon,
                 issues, out, cache, inflight, now, cacheWritten, logWritten,
                 calls, seen, staleSeen, tested, released, checks>>

\* the probe ends and the resolver gives its token back: <-hT.httpChannel
Probe(d) ==
  /\ Alive /\ pc[d] = "probe"
  /\ http' = http - 1
  /\ res' = [res EXCEPT ![d] = Live(CurKey(d))]
  /\ pc' = [pc EXCEPT ![d] = "store"]
  /\ UNCHANGED <<opts, env, mainpc, di, wg, conc, tmode, ni, ci, favicon,
                 issues, out, cache, inflight, now, cacheWritten, logWritten,
                 calls, seen, staleSeen, tested, released, checks>>

\* the tasks suspended on the resolution of key k
Waiters(k) == {w \in Docs : pc[w] = "wait" /\ CurKey(w) = k}

\* Resolve, last step, under the cache's lock: the status is stored with the
\* current time, the in-flight mark is cleared, and the waiting callers are
\* handed the same status.
Store(d) ==
  /\ Alive /\ pc[d] = "store"
  /\ \E t \in now..env.horizon : now' = t
  /\ LET k == CurKey(d)
         W == Waiters(k) IN
     /\ cache' = [cache EXCEPT ![k] = [status |-> res[d], t |-> now']]
     /\ inflight' = inflight \ {k}
     /\ seen' = [seen EXCEPT ![k] = @ \cup {res[d]}]
     /\ res' = [w \in Docs |-> IF w \in W THEN res[d] ELSE res[w]]
     /\ pc' = [w \in Docs |-> IF w \in W \cup {d} THEN "emit" ELSE pc[w]]
  /\ UNCHANGED <<opts, env, mainpc, di, wg, conc, http, tmode, ni, ci,
                 favicon, issues, out, cacheWritten, logWritten, calls,
                 staleSeen, tested, released, checks>>

\* the reference checker: a failed resolution emits an Error issue
Emit(d) ==
  /\ Alive /\ pc[d] = "emit"
  /\ LET bad == res[d] = "invalid"
         iss == BrokenIssue(d, CurKey(d)) IN
     /\ issues' = IF bad THEN AddedIssues(iss) ELSE issues
     /\ out' = IF bad THEN AddedOut(iss) ELSE out
  /\ Advance(d)
  /\ UNCHANGED <<opts, env, mainpc, di, wg, conc, http, tmode, res, favicon,
                 cache, inflight, now, cacheWritten, logWritten, calls, seen,
                 staleSeen, tested, released, checks>>

(* ----------------------- end of testDocument --------------------------- *)
\* postChecks, lines 209-217
PostChecks(d) ==
  /\ Alive /\ pc[d] = "post"
  /\ LET miss == opts.CheckFavicon /\ ~favicon[d] IN
     /\ issues' = IF miss THEN AddedIssues(FaviconIssue(d)) ELSE issues
     /\ out' = IF miss THEN AddedOut(FaviconIssue(d)) ELSE out
  /\ pc' = [pc EXCEPT ![d] = "flush"]
  /\ UNCHANGED <<opts, env, mainpc, di, wg, conc, http, tmode, ni, ci, res,
                 favicon, cache, inflight, now, cacheWritten, logWritten,
                 calls, seen, staleSeen, tested, released, checks>>

\* testDocument, lines 203-207: PrintDocumentIssues under "document" sort,
\* then the function returns
Flush(d) ==
  /\ Alive /\ pc[d] = "flush"
  /\ out' = IF opts.LogSort = "document" THEN out \o DocumentIssues(d) ELSE out
  /\ tested' = [tested EXCEPT ![d] = @ + 1]
  /\ pc' = [pc EXCEPT ![d] = IF tmode[d] = "go" THEN "release" ELSE "ret"]
  /\ UNCHANGED <<opts, env, mainpc, di, wg, conc, http, tmode, ni, ci, res,
                 favicon, issues, cache, inflight, now, cacheWritten,
                 logWritten, calls, seen, staleSeen, released, checks>>

(* ------------------- the goroutine of testDocuments -------------------- *)
\* line 138: <-concChannel
Release(d) ==
  /\ Alive /\ pc[d] = "release"
  /\ conc > 0
  /\ conc' = conc - 1
  /\ released' = [released EXCEPT ![d] = @ + 1]
  /\ pc' = [pc EXCEPT ![d] = "deferred"]
  /\ UNCHANGED <<opts, env, mainpc, di, wg, http, tmode, ni, ci, res, favicon,
                 issues, out, cache, inflight, now, cacheWritten, logWritten,
                 calls, seen, staleSeen, tested, checks>>

\* line 136: the deferred wg.Done(), on the normal return of the goroutine
Done(d) ==
  /\ Alive /\ pc[d] = "deferred"
  /\ wg' = wg - 1
  /\ pc' = [pc EXCEPT ![d] = "exited"]
  /\ UNCHANGED <<opts, env, mainpc, di, conc, http, tmode, ni, ci, res,
                 favicon, issues, out, cache, inflight, now, cacheWritten,
                 logWritten, calls, seen, staleSeen, tested, released, checks>>

\* a panic inside testDocument unwinds the goroutine: line 138 is skipped and
\* only the deferred wg.Done() of line 136 runs; called directly (no goroutine)
\* nothing is deferred
Unwind(d) ==
  /\ Alive /\ pc[d] = "panic"
  /\ wg' = IF tmode[d] = "go" THEN wg - 1 ELSE wg
  /\ pc' = [pc EXCEPT ![d] = "panicked"]
  /\ UNCHANGED <<opts, env, mainpc, di, conc, http, tmode, ni, ci, res,
                 favicon, issues, out, cache, inflight, now, cacheWritten,
                 logWritten, calls, seen, staleSeen, tested, released, checks>>

\* the unrecovered panic then ends the process
Crash ==
  /\ Alive /\ \E d \in Docs : pc[d] = "panicked"
  /\ mainpc' = "crashed"
  /\ UNCHANGED <<opts, env, di, wg, conc, http, pc, tmode, ni, ci, res,
                 favicon, issues, out, cache, inflight, now, cacheWritten,
                 logWritten, calls, seen, staleSeen, tested, released, checks>>

(* -------------------------------- Test --------------------------------- *)
taskvars == <<pc, tmode, ni, ci, res, favicon>>
cachevars == <<cache, inflight, calls, seen, staleSeen>>

\* a session that runs whatever NoRun says
CheckNoRunIgnored ==
  /\ mainpc = "norun"
  /\ mainpc' = "openroot"
  /\ UNCHANGED <<opts, env, di, wg, conc, http, taskvars, issues, out,
                 cachevars, now, cacheWritten, logWritten, tested, released,
                 checks>>

\* Test, lines 70-72
CheckNoRun ==
  /\ mainpc = "norun"
  /\ mainpc' = IF opts.NoRun THEN "returned" ELSE "openroot"
  /\ UNCHANGED <<opts, env, di, wg, conc, http, taskvars, issues, out,
                 cachevars, now, cacheWritten, logWritten, tested, released,
                 checks>>

\* the root is opened but never asked whether it is a directory
OpenRootNoDirCheck ==
  /\ mainpc = "openroot"
  /\ mainpc' = CASE env.root = "missing" -> "aborted"
                 [] env.root = "unreadable" -> "crashed"
                 [] OTHER -> "discover"
  /\ UNCHANGED <<opts, env, di, wg, conc, http, taskvars, issues, out,
                 cachevars, now, cacheWritten, logWritten, tested, released,
                 checks>>

\* Test, lines 74-85: os.Open, AbortWith when the directory does not exist;
\* f.Stat() with CheckErrorPanic (a root that cannot be opened leaves f nil);
\* AbortWith when the path is a file
OpenRoot ==
  /\ mainpc = "openroot"
  /\ mainpc' = CASE env.root = "missing" -> "aborted"
                 [] env.root = "unreadable" -> "crashed"
                 [] env.root = "file" -> "aborted"
                 [] OTHER -> "discover"
  /\ UNCHANGED <<opts, env, di, wg, conc, http, taskvars, issues, out,
                 cachevars, now, cacheWritten, logWritten, tested, released,
                 checks>>

\* Test, lines 87-95: the document store is set up and Discover() runs
Discover ==
  /\ mainpc = "discover"
  /\ mainpc' = "dispatch"
  /\ UNCHANGED <<opts, env, di, wg, conc, http, taskvars, issues, out,
                 cachevars, now, cacheWritten, logWritten, tested, released,
                 checks>>

\* entering testDocument(d)
Enter(d, how) ==
  /\ pc' = [pc EXCEPT ![d] = "parse"]
  /\ tmode' = [tmode EXCEPT ![d] = how]

\* a dispatch that looks at DirectoryPath before FilePath
DispatchDirectoryFirst ==
  /\ mainpc = "dispatch"
  /\ IF opts.DirectoryPath # ""
     THEN mainpc' = "td" /\ UNCHANGED <<pc, tmode>>
     ELSE IF opts.FilePath = "" \/ env.resolved = NoDoc
     THEN mainpc' = "aborted" /\ UNCHANGED <<pc, tmode>>
     ELSE mainpc' = "single" /\ Enter(env.resolved, "call")
  /\ UNCHANGED <<opts, env, di, wg, conc, http, ni, ci, res, favicon, issues,
                 out, cachevars, now, cacheWritten, logWritten, tested,
                 released, checks>>

\* Test, lines 97-110: single document mode, testDocuments, or abort
Dispatch ==
  /\ mainpc = "dispatch"
  /\ IF opts.FilePath # ""
     THEN IF env.resolved = NoDoc
          THEN mainpc' = "aborted" /\ UNCHANGED <<pc, tmode>>
          ELSE mainpc' = "single" /\ Enter(env.resolved, "call")
     ELSE /\ mainpc' = IF opts.DirectoryPath # "" THEN "td" ELSE "aborted"
          /\ UNCHANGED <<pc, tmode>>
  /\ UNCHANGED <<opts, env, di, wg, conc, http, ni, ci, res, favicon, issues,
                 out, cachevars, now, cacheWritten, logWritten, tested,
                 released, checks>>

\* Test, line 104: testDocument(doc) returns
SingleReturn ==
  /\ mainpc = "single" /\ pc[env.resolved] = "ret"
  /\ mainpc' = "wcache"
  /\ pc' = [pc EXCEPT ![env.resolved] = "exited"]
  /\ UNCHANGED <<opts, env, di, wg, conc, http, tmode, ni, ci, res, favicon,
                 issues, out, cachevars, now, cacheWritten, logWritten,
                 tested, released, checks>>

\* the advisory issue added in either mode
TdBeginAlwaysAdvises ==
  /\ mainpc = "td"
  /\ issues' = AddedIssues(AdvisoryIssue)
  /\ out' = AddedOut(AdvisoryIssue)
  /\ mainpc' = IF opts.TestFilesConcurrently THEN "loop" ELSE "seq"
  /\ di' = 1 /\ wg' = 0 /\ conc' = 0
  /\ UNCHANGED <<opts, env, http, taskvars, cachevars, now, cacheWritten,
                 logWritten, tested, released, checks>>

\* testDocuments, lines 124-131 (concurrent: the advisory issue is added,
\* the WaitGroup and concChannel are made) or line 142 (sequential)
TdBegin ==
  /\ mainpc = "td"
  /\ IF opts.TestFilesConcurrently
     THEN /\ issues' = AddedIssues(AdvisoryIssue)
          /\ out' = AddedOut(AdvisoryIssue)
          /\ mainpc' = "loop"
     ELSE /\ mainpc' = "seq"
          /\ UNCHANGED <<issues, out>>
  /\ di' = 1 /\ wg' = 0 /\ conc' = 0
  /\ UNCHANGED <<opts, env, http, taskvars, cachevars, now, cacheWritten,
                 logWritten, tested, released, checks>>

\* testDocuments, lines 132-133: next document of the range loop, wg.Add(1)
LoopAdd ==
  /\ mainpc = "loop"
  /\ IF di <= CountDocuments
     THEN wg' = wg + 1 /\ mainpc' = "send"
     ELSE wg' = wg /\ mainpc' = "wait"
  /\ UNCHANGED <<opts, env, di, conc, http, taskvars, issues, out, cachevars,
                 now, cacheWritten, logWritten, tested, released, checks>>

\* testDocuments, line 134: concChannel <- true, blocking while it is full
Send ==
  /\ mainpc = "send"
  /\ conc < ConcChannelCap
  /\ conc' = conc + 1
  /\ mainpc' = "go"
  /\ UNCHANGED <<opts, env, di, wg, http, taskvars, issues, out, cachevars,
                 now, cacheWritten, logWritten, tested, released, checks>>

\* testDocuments, lines 135-139: the go statement
Go ==
  /\ mainpc = "go"
  /\ Enter(di, "go")
  /\ di' = di + 1
  /\ mainpc' = "loop"
  /\ UNCHANGED <<opts, env, wg, conc, http, ni, ci, res, favicon, issues, out,
                 cachevars, now, cacheWritten, logWritten, tested, released,
                 checks>>

\* a wait that does not hold the caller back
WaitNoBarrier ==
  /\ mainpc = "wait"
  /\ mainpc' = "wcache"
  /\ UNCHANGED <<opts, env, di, wg, conc, http, taskvars, issues, out,
                 cachevars, now, cacheWritten, logWritten, tested, released,
                 checks>>

\* testDocuments, line 141: wg.Wait() returns, and so does testDocuments
Wait ==
  /\ mainpc = "wait"
  /\ wg = 0
  /\ mainpc' = "wcache"
  /\ UNCHANGED <<opts, env, di, wg, conc, http, taskvars, issues, out,
                 cachevars, now, cacheWritten, logWritten, tested, released,
                 checks>>

\* testDocuments, lines 143-144: the sequential loop calls testDocument
SeqCall ==
  /\ mainpc = "seq"
  /\ IF di <= CountDocuments
     THEN mainpc' = "seqwait" /\ Enter(di, "call")
     ELSE mainpc' = "wcache" /\ UNCHANGED <<pc, tmode>>
  /\ UNCHANGED <<opts, env, di, wg, conc, http, ni, ci, res, favicon, issues,
                 out, cachevars, now, cacheWritten, logWritten, tested,
                 released, checks>>

\* a loop that goes on to the next document without awaiting the call
SeqReturnNoWait ==
  /\ mainpc = "seqwait"
  /\ di' = di + 1
  /\ mainpc' = "seq"
  /\ UNCHANGED <<opts, env, wg, conc, http, pc, tmode, ni, ci, res, favicon,
                 issues, out, cachevars, now, cacheWritten, logWritten,
                 tested, released, checks>>

\* testDocuments, line 144: testDocument(document) returns
SeqReturn ==
  /\ mainpc = "seqwait" /\ pc[di] = "ret"
  /\ pc' = [pc EXCEPT ![di] = "exited"]
  /\ di' = di + 1
  /\ mainpc' = "seq"
  /\ UNCHANGED <<opts, env, wg, conc, http, tmode, ni, ci, res, favicon,
                 issues, out, cachevars, now, cacheWritten, logWritten,
                 tested, released, checks>>

\* Test, lines 112-114
WriteCache ==
  /\ mainpc = "wcache"
  /\ cacheWritten' = opts.EnableCache
  /\ mainpc' = "wlog"
  /\ UNCHANGED <<opts, env, di, wg, conc, http, taskvars, issues, out,
                 cachevars, now, logWritten, tested, released, checks>>

\* Test, lines 115-120
WriteLog ==
  /\ mainpc = "wlog"
  /\ logWritten' = opts.EnableLog
  /\ mainpc' = "returned"
  /\ UNCHANGED <<opts, env, di, wg, conc, http, taskvars, issues, out,
                 cachevars, now, cacheWritten, tested, released, checks>>

(* ------------------------------ behaviours ----------------------------- *)
\* hT.opts after setOptions: the options the model varies, the rest default
Options(tfc, d, m, sort, fav, ttl, ec, el) ==
  [TestFilesConcurrently |-> tfc, DocumentConcurrencyLimit |-> d,
   HTTPConcurrencyLimit |-> m, LogSort |-> sort, CheckFavicon |-> fav,
   CacheExpires |-> ttl, EnableCache |-> ec, EnableLog |-> el,
   CheckDoctype |-> TRUE, CheckAnchors |-> TRUE, CheckLinks |-> TRUE,
   CheckImages |-> TRUE, CheckScripts |-> TRUE, CheckMeta |-> TRUE,
   CheckGeneric |-> TRUE, NoRun |-> FALSE, FilePath |-> "",
   DirectoryPath |-> "site"]

\* sites: every document links the same reference / documents differ
SiteShared == [d \in 1..MaxDocs |-> DocA]
SiteMixed ==
  [d \in 1..MaxDocs |-> IF d = 1 THEN DocB ELSE IF d = 2 THEN DocV ELSE DocA]

\* the cache NewRefCache loads: empty, or an entry for key 1 stamped at time 0
EmptyCache == [k \in Keys |-> NoEntry]
Loaded(st) == [EmptyCache EXCEPT ![1] = [status |-> st, t |-> 0]]

\* the world of a run: the root directory, the discovered documents, the
\* references whose live check fails, the document FilePath resolves to, the
\* cache file's content, and how long the run may last on the wall clock
World(root, site, broken, resolved, loaded, horizon) ==
  [root |-> root, documents |-> site, broken |-> broken, resolved |-> resolved,
   loaded |-> loaded, horizon |-> horizon]

\* the state Test has built when it reaches line 70
InitWith(C) ==
  /\ \E c \in C : opts = c[1] /\ env = c[2]
  /\ cache = IF CachePath # "" THEN env.loaded ELSE EmptyCache
  /\ mainpc = "norun"
  /\ di = 1 /\ wg = 0 /\ conc = 0 /\ http = 0
  /\ pc = [d \in Docs |-> "idle"]
  /\ tmode = [d \in Docs |-> "call"]
  /\ ni = [d \in Docs |-> 1]
  /\ ci = [d \in Docs |-> 1]
  /\ res = [d \in Docs |-> "none"]
  /\ favicon = [d \in Docs |-> FALSE]
  /\ issues = <<>> /\ out = <<>>
  /\ inflight = {}
  /\ now = 0
  /\ cacheWritten = FALSE /\ logWritten = FALSE
  /\ calls = [k \in Keys |-> 0]
  /\ seen = [k \in Keys |-> {}]
  /\ staleSeen = {}
  /\ tested = [d \in Docs |-> 0]
  /\ checks = [d \in Docs |-> <<>>]
  /\ released = [d \in Docs |-> 0]

\* the limit pairs tried: every document limit with the widest fetch limit,
\* and the widest document limit with a fetch limit of one
LimitPairs == {<<d, MaxM>> : d \in 1..MaxD} \cup {<<MaxD, 1>>}
\* log sort mode with the favicon check off or on
Profiles == {<<"seq", FALSE>>, <<"document", TRUE>>}

\* runs over a readable site, in both modes, that take no time on the clock
RunOptions ==
  {Options(TRUE, l[1], l[2], p[1], p[2], MaxTTL, FALSE, TRUE) :
     l \in LimitPairs, p \in Profiles}
  \cup {Options(FALSE, 1, 1, p[1], p[2], MaxTTL, FALSE, TRUE) : p \in Profiles}
RunWorlds ==
  {World("dir", SiteShared, {1}, NoDoc, EmptyCache, 0),
   World("dir", SiteMixed, {1}, NoDoc, EmptyCache, 0),
   World("dir", SiteMixed, {1, 2}, NoDoc, EmptyCache, 0)}

RunConfigs == RunOptions \X RunWorlds

\* runs that end, or test a single document, before testDocuments is reached:
\* NoRun, a root that is missing, unreadable or a file, and FilePath set
Plain == Options(FALSE, 1, 1, "seq", TRUE, MaxTTL, TRUE, TRUE)
PlainWorld(root, resolved) ==
  World(root, SiteMixed, {1}, resolved, EmptyCache, 0)
PreflightConfigs ==
  {<<[Plain EXCEPT !.NoRun = TRUE], PlainWorld("dir", NoDoc)>>,
   <<[Plain EXCEPT !.NoRun = TRUE],
     World("missing", SiteMixed, {1}, NoDoc, Loaded("valid"), 0)>>}
  \cup {<<Plain, PlainWorld(r, NoDoc)>> : r \in {"missing", "unreadable", "file"}}
  \cup {<<[Plain EXCEPT !.DirectoryPath = ""], PlainWorld("missing", NoDoc)>>}
  \cup {<<[Plain EXCEPT !.FilePath = "doc", !.TestFilesConcurrently = t],
          PlainWorld(r, x)>> :
            t \in BOOLEAN, r \in {"dir", "missing", "file"},
            x \in {NoDoc, 1, MaxDocs}}

Init == InitWith(RunConfigs \cup PreflightConfigs)

\* concurrent runs whose limits may be zero, and a sequential run
ZeroLimitPairs ==
  {<<d, MaxM>> : d \in 0..MaxD} \cup {<<MaxD, m>> : m \in 0..MaxM}
ZeroConfigs ==
  {<<Options(TRUE, l[1], l[2], "seq", FALSE, MaxTTL, FALSE, TRUE),
     World("dir", SiteMixed, {1}, NoDoc, EmptyCache, 0)>> : l \in ZeroLimitPairs}
  \cup {<<Options(FALSE, 0, 1, "seq", FALSE, MaxTTL, FALSE, TRUE),
          World("dir", SiteMixed, {1}, NoDoc, EmptyCache, 0)>>}

\* concurrent runs that last up to MaxNow on the clock, over documents that
\* share one broken reference, with an empty or a loaded cache
CacheConfigs ==
  {<<Options(TRUE, MaxD, MaxM, "seq", FALSE, ttl, TRUE, TRUE),
     World("dir", SiteShared, {1}, NoDoc, c, MaxNow)>> :
       ttl \in 1..MaxTTL, c \in {EmptyCache, Loaded("valid")}}
  \cup {<<Options(FALSE, 1, 1, "seq", FALSE, 1, TRUE, TRUE),
          World("dir", SiteMixed, {1}, NoDoc, Loaded("invalid"), MaxNow)>>}

InitCache == InitWith(CacheConfigs \cup PreflightConfigs)

\* runs over a site whose first or last document cannot be parsed, and over
\* sites whose documents all parse
SitePanicFirst == [d \in 1..MaxDocs |-> IF d = 1 THEN DocBad ELSE DocA]
SitePanicLast == [d \in 1..MaxDocs |-> IF d = MaxDocs THEN DocBad ELSE DocA]
PanicConfigs ==
  {<<Options(tfc, d, MaxM, "seq", FALSE, MaxTTL, TRUE, TRUE),
     World("dir", site, {1}, NoDoc, EmptyCache, 0)>> :
       tfc \in BOOLEAN, d \in {1, MaxD},
       site \in {SitePanicFirst, SitePanicLast, SiteShared, SiteMixed}}

InitPanic == InitWith(PanicConfigs \cup PreflightConfigs)

InitZero == InitWith(ZeroConfigs \cup PreflightConfigs)

\* runs, in both modes, over one more document than MaxDocs, each with two
\* links to the same missing file, the favicon and doctype checks off; and a
\* sequential run over a site whose media element has two broken attributes;
\* and a concurrent run, one fetch token, over documents sharing a reference
ScenarioDocs == MaxDocs + 1
ScenarioSite == [d \in 1..ScenarioDocs |-> DocLinks]
ScenarioLinks == Len(DocLinks.nodes)
ScenarioOptions(tfc) ==
  [Options(tfc, MaxD, MaxM, "seq", FALSE, MaxTTL, FALSE, TRUE)
     EXCEPT !.CheckDoctype = FALSE]
ScenarioConfigs ==
  {<<ScenarioOptions(tfc), World("dir", ScenarioSite, {1}, NoDoc, EmptyCache, 0)>> :
     tfc \in BOOLEAN}
  \cup {<<ScenarioOptions(FALSE),
          World("dir", SiteMixed, {1, 2}, NoDoc, EmptyCache, 0)>>}
  \cup {<<[ScenarioOptions(TRUE) EXCEPT !.HTTPConcurrencyLimit = 1],
          World("dir", SiteShared, {1}, NoDoc, EmptyCache, 0)>>}

InitScenario == InitWith(ScenarioConfigs \cup PreflightConfigs)

\* the tags a node of interest may carry, and one the switch does not name
TableTags ==
  {"a", "link", "img", "script", "meta", "area", "blockquote", "del", "ins",
   "q", "iframe", "input", "audio", "embed", "source", "track", "video",
   "object"}
AllTags == TableTags \cup {"div"}
\* the options that switch the check categories of the node loop
CheckNames ==
  {"CheckAnchors", "CheckLinks", "CheckImages", "CheckScripts", "CheckMeta",
   "CheckGeneric"}
\* a document whose nodes are one of tag t and, after it, a video element
DocOfTag(t) ==
  [nodes |-> <<Node(t, 1, FALSE), Node("video", 2, FALSE)>>,
   doctype |-> TRUE, parseOK |-> TRUE]
\* sequential runs over a one-document site, for every tag and every
\* combination of the check options; and concurrent runs over two such
\* documents, for every tag with all checks on
TagOptions(on) ==
  [n \in DOMAIN Plain |-> IF n \in CheckNames THEN on[n] ELSE Plain[n]]
TagConfigs ==
  {<<TagOptions(on), World("dir", <<DocOfTag(t)>>, {1}, NoDoc, EmptyCache, 0)>> :
     on \in [CheckNames -> BOOLEAN], t \in AllTags}
  \cup {<<[TagOptions([n \in CheckNames |-> TRUE])
            EXCEPT !.TestFilesConcurrently = TRUE],
          World("dir", <<DocOfTag(t), DocOfTag(t)>>, {1}, NoDoc, EmptyCache, 0)>> :
            t \in AllTags}

InitTags == InitWith(TagConfigs \cup PreflightConfigs)

\* runs in both modes with the cache and the log each switched on or off,
\* and runs over a site one of whose documents cannot be parsed
PersistConfigs ==
  {<<Options(tfc, MaxD, MaxM, "seq", FALSE, MaxTTL, ec, el),
     World("dir", SiteMixed, {1}, NoDoc, EmptyCache, 0)>> :
       tfc \in BOOLEAN, ec \in BOOLEAN, el \in BOOLEAN}
  \cup {<<Options(tfc, MaxD, MaxM, "seq", FALSE, MaxTTL, TRUE, TRUE),
          World("dir", site, {1}, NoDoc, EmptyCache, 0)>> :
            tfc \in BOOLEAN, site \in {SitePanicFirst, SitePanicLast}}

InitPersist == InitWith(PersistConfigs \cup PreflightConfigs)

TaskStep(d) ==
  \/ Parse(d) \/ Doctype(d) \/ BeginCheck(d)
  \/ Lookup(d) \/ Acquire(d) \/ Probe(d) \/ Store(d) \/ Emit(d)
  \/ PostChecks(d) \/ Flush(d)
  \/ Release(d) \/ Done(d)

MainStep ==
  \/ CheckNoRun \/ OpenRoot \/ Discover \/ Dispatch \/ SingleReturn
  \/ TdBegin \/ LoopAdd \/ Send \/ Go \/ Wait \/ SeqCall \/ SeqReturn
  \/ WriteCache \/ WriteLog

Next == MainStep \/ (\E d \in Docs : TaskStep(d))

Spec == Init /\ [][Next]_vars

NextPanic == Next \/ (\E d \in Docs : Unwind(d)) \/ Crash

SpecPanic == InitPanic /\ [][NextPanic]_vars

SpecCache == InitCache /\ [][Next]_vars

SpecScenario == InitScenario /\ [][Next]_vars

SpecTags == InitTags /\ [][Next]_vars

SpecPersist == InitPersist /\ [][NextPanic]_vars

\* the Go scheduler runs a goroutine that can take a step: the process does
\* not stop while some step is possible
SpecZero == InitZero /\ [][Next]_vars /\ WF_vars(Next)

(* ------------------------------ properties ----------------------------- *)
\* the document tasks (goroutines) currently inside testDocument
InsideTasks == {d \in Docs : tmode[d] = "go" /\ pc[d] \in Inside}

\* C1: in concurrent mode with D >= 1, the number of document tasks that are
\* inside testDocument at the same time never exceeds D.
C1_DocumentLimit ==
  (opts.TestFilesConcurrently /\ opts.DocumentConcurrencyLimit >= 1)
    => Cardinality(InsideTasks) <= opts.DocumentConcurrencyLimit

\* C1 witness: D tasks are inside testDocument, fewer than there are
\* documents, and the orchestrator is held at the send for the next one.
C1_Witness ==
  /\ opts.TestFilesConcurrently
  /\ mainpc = "send" /\ di <= CountDocuments
  /\ Cardinality(InsideTasks) = opts.DocumentConcurrencyLimit
  /\ opts.DocumentConcurrencyLimit < CountDocuments

\* positions of the orchestrator inside testDocuments, and after its return
InTestDocuments == {"td", "loop", "send", "go", "wait", "seq", "seqwait"}
AfterTestDocuments == {"wcache", "wlog", "returned"}
ConcurrentRun == opts.TestFilesConcurrently /\ opts.FilePath = ""

\* every discovered document has been tested exactly once and its task is over
AllTestedOnce == \A d \in Docs : tested[d] = 1 /\ pc[d] = "exited"

Resolvers(k) == {d \in Docs : pc[d] \in Resolving /\ CurKey(d) = k}
\* the run is over
RunOver == mainpc = "returned"

FreshByOptions(e, t) == e.status # "none" /\ t - e.t < opts.CacheExpires

\* one access of the cache by task d: the step that leaves "resolve"
C10_Access(d) ==
  LET k == CurKey(d)
      e == cache[k]
      reused == pc'[d] = "emit" /\ res'[d] = e.status /\ calls' = calls
                  /\ cache' = cache /\ inflight' = inflight
  IN  /\ reused <=> FreshByOptions(e, now')
      /\ (~FreshByOptions(e, now') /\ k \notin inflight) =>
            /\ calls' = [calls EXCEPT ![k] = @ + 1]
            /\ k \in inflight' /\ pc'[d] = "acquire"
      /\ (~FreshByOptions(e, now') /\ k \in inflight) =>
            /\ calls' = calls /\ pc'[d] = "wait"

\* the end of a resolution by task d: the step that leaves "store"
C10_Overwrite(d) ==
  LET k == CurKey(d) IN
  /\ cache'[k] = [status |-> Live(k), t |-> now']
  /\ k \notin inflight'
  /\ res'[d] = Live(k)

\* the checker's step after a resolution: an issue iff the status is invalid
C10_Report(d) ==
  IF res[d] = "valid" THEN issues' = issues
  ELSE issues' = Append(issues, BrokenIssue(d, CurKey(d)))

\* C10: an entry with timestamp t is reused without invoking the resolver iff
\* now - t < TTL; otherwise the access triggers one fresh resolution (or joins
\* the one in flight), whose result overwrites the entry; a status reused from
\* a fresh valid entry emits no issue, whatever a live check would find.
C10_TTL ==
  [][\A d \in Docs :
       /\ (pc[d] = "resolve" /\ pc'[d] # "resolve") => C10_Access(d)
       /\ (pc[d] = "store" /\ pc'[d] # "store") => C10_Overwrite(d)
       /\ (pc[d] = "emit" /\ pc'[d] # "emit") => C10_Report(d)]_vars

\* C10 witness: a loaded valid entry for a reference whose live check fails
\* was reused while fresh (a document passed the reference without an issue),
\* then found expired, resolved once afresh and overwritten with the failure.
C10_Witness ==
  /\ env.loaded[1].status = "valid" /\ 1 \in env.broken
  /\ seen[1] = {"valid", "invalid"}
  /\ 1 \in staleSeen /\ calls[1] = 1
  /\ cache[1].status = "invalid" /\ cache[1].t >= opts.CacheExpires
  /\ \E d \in Docs :
       /\ pc[d] = "exited"
       /\ \A i \in DOMAIN issues : issues[i].by # d

\* the probes (filesystem or network checks) in progress
Probing == {d \in Docs : pc[d] = "probe"}

\* C4: the number of probes in progress at the same time, over all document
\* tasks, never exceeds the fetch limiter size M, whatever D is.
C4_FetchLimit ==
  /\ Cardinality(Probing) <= opts.HTTPConcurrencyLimit
  /\ http = Cardinality(Probing)

\* C4 witness: with more document slots than fetch tokens, M probes are in
\* progress and a further task is kept waiting for a token.
C4_Witness ==
  /\ opts.DocumentConcurrencyLimit > opts.HTTPConcurrencyLimit
  /\ Cardinality(Probing) = opts.HTTPConcurrencyLimit
  /\ \E d \in Docs : pc[d] = "acquire"

(* what a document's test has reported so far, told from its position *)
\* the issue a check of node n reports: none unless the reference is broken
RefIssues(d, n) ==
  IF n.key # NoKey /\ n.key \in env.broken THEN <<BrokenIssue(d, n.key)>> ELSE <<>>

\* the issues of the first c checks of node number i of document d
RECURSIVE NodeIssues(_, _, _)
NodeIssues(d, i, c) ==
  IF c = 0 THEN <<>>
  ELSE NodeIssues(d, i, c - 1) \o RefIssues(d, NodesOf(d)[i])

\* the issues of all checks of the first i nodes of document d
RECURSIVE NodesIssues(_, _)
NodesIssues(d, i) ==
  IF i = 0 THEN <<>>
  ELSE NodesIssues(d, i - 1)
         \o NodeIssues(d, i, Len(ChecksFor(NodesOf(d)[i].tag)))

DoctypeIssues(d) ==
  IF opts.CheckDoctype /\ ~env.documents[d].doctype
  THEN <<DoctypeIssue(d)>> ELSE <<>>

\* a favicon link is among the nodes checkLink is called for
HasFavicon(d) ==
  \E i \in DOMAIN NodesOf(d) :
    /\ NodesOf(d)[i].icon
    /\ \E j \in DOMAIN ChecksFor(NodesOf(d)[i].tag) :
         ChecksFor(NodesOf(d)[i].tag)[j].fn = "checkLink"

FaviconIssues(d) ==
  IF opts.CheckFavicon /\ ~HasFavicon(d)
  THEN <<[level |-> LevelError, text |-> "favicon missing", ref |-> NoKey,
          doc |-> NoDoc, by |-> d]>>
  ELSE <<>>

InChecks == {"node", "resolve", "wait", "acquire", "probe", "store", "emit"}

\* the issues document d's test is due to have stored at its position, when
\* every reference resolves to its live status
IssuesDue(d) ==
  IF pc[d] \in {"idle", "parse", "doctype", "panic", "panicked"} THEN <<>>
  ELSE IF pc[d] \in InChecks
  THEN DoctypeIssues(d) \o NodesIssues(d, ni[d] - 1)
         \o NodeIssues(d, ni[d], ci[d] - 1)
  ELSE DoctypeIssues(d) \o NodesIssues(d, Len(NodesOf(d)))
         \o (IF pc[d] = "post" THEN <<>> ELSE FaviconIssues(d))

\* all issues of a whole test of document d
AllIssues(d) ==
  DoctypeIssues(d) \o NodesIssues(d, Len(NodesOf(d))) \o FaviconIssues(d)

RECURSIVE SumDue(_)
SumDue(n) == IF n = 0 THEN 0 ELSE SumDue(n - 1) + Len(IssuesDue(n))

ErrorIndices == {i \in DOMAIN issues : issues[i].level = LevelError}
WarningIndices == {i \in DOMAIN issues : issues[i].level = LevelWarning}

\* C9: CountErrors() equals the number of stored issues of level Error, which
\* is the number of Error issues the document tasks have inserted so far (none
\* is lost); the warning-level advisory is stored but never counted.
C9_CountErrors ==
  /\ CountErrors = Cardinality(ErrorIndices)
  /\ CountErrors = SumDue(CountDocuments)
  /\ Len(issues) = CountErrors + Cardinality(WarningIndices)

\* C9 witness: the advisory and Error issues of two different tasks are
\* stored, inserted in interleaved order (a, b, a).
C9_Witness ==
  /\ Cardinality(WarningIndices) = 1
  /\ CountErrors >= 3
  /\ \E i, j, k \in DOMAIN issues :
       /\ i < j /\ j < k
       /\ issues[i].by = issues[k].by /\ issues[i].by # NoDoc
       /\ issues[j].by # issues[i].by /\ issues[j].by # NoDoc

\* an issue as the store holds it: level, message and owning document
Stored(x) == [level |-> x.level, text |-> x.text, ref |-> x.ref, doc |-> x.doc]

\* the multiset of the stored form of the issues of a sequence
BagOfSeq(q) ==
  LET R == {Stored(q[i]) : i \in DOMAIN q}
  IN  [x \in R |-> Cardinality({i \in DOMAIN q : Stored(q[i]) = x})]

\* what a sequential run of testDocuments leaves in the store: the issues of
\* each document in turn, in discovery order
RECURSIVE SequentialIssues(_)
SequentialIssues(n) ==
  IF n = 0 THEN <<>> ELSE SequentialIssues(n - 1) \o AllIssues(n)

\* the run went through testDocuments and is over
FullRunOver == RunOver /\ ~opts.NoRun /\ opts.FilePath = ""

\* C6 as stated: for the same documents and options a run leaves the same
\* multiset of issues in the store whether it is sequential or concurrent:
\* the multiset the sequential run leaves.
C6_Original ==
  FullRunOver => BagOfSeq(issues) = BagOfSeq(SequentialIssues(CountDocuments))

\* C6 amended: the sequential run leaves exactly the sequential issues; the
\* concurrent run leaves the same multiset and, besides, one warning-level
\* advisory issue.
C6_SameIssuesButAdvisory ==
  FullRunOver =>
    IF opts.TestFilesConcurrently
    THEN /\ BagOfSeq(issues)
              = BagOfSeq(Append(SequentialIssues(CountDocuments),
                                [level |-> LevelWarning, text |-> "concurrent",
                                 ref |-> NoKey, doc |-> NoDoc, by |-> NoDoc]))
         /\ BagOfSeq(SelectSeq(issues, LAMBDA x : x.level = LevelError))
              = BagOfSeq(SequentialIssues(CountDocuments))
    ELSE BagOfSeq(issues) = BagOfSeq(SequentialIssues(CountDocuments))

\* C6 witness: a concurrent run is over whose store holds the issues in an
\* order no sequential run gives (a later document's issue comes first).
C6_Witness ==
  /\ FullRunOver /\ opts.TestFilesConcurrently
  /\ Len(issues) >= 3
  /\ \E i, j \in DOMAIN issues :
       i < j /\ issues[i].by > issues[j].by /\ issues[j].by # NoDoc

\* a fatal pre-flight condition: the root directory is missing, unreadable or
\* a file, or the requested single document is not found
Fatal ==
  \/ env.root \in {"missing", "unreadable", "file"}
  \/ opts.FilePath # "" /\ env.resolved = NoDoc

\* C7: under a fatal pre-flight condition the run ends (aborted, or by the
\* panic of the unexpected-error path) without returning, before any document
\* is tested, and neither the cache file nor the log file is written.
C7_FatalPreflight ==
  (Fatal /\ ~opts.NoRun) =>
    /\ mainpc \in {"norun", "openroot", "discover", "dispatch", "aborted",
                   "crashed"}
    /\ \A d \in Docs : pc[d] = "idle" /\ tested[d] = 0
    /\ issues = <<>> /\ out = <<>>
    /\ ~cacheWritten /\ ~logWritten
    /\ calls = [k \in Keys |-> 0]

\* C7 witness: the run was aborted after discovery because the requested
\* single document was not found, with caching and logging switched on.
C7_Witness ==
  /\ mainpc = "aborted" /\ env.root = "dir"
  /\ opts.FilePath # "" /\ env.resolved = NoDoc
  /\ opts.EnableCache /\ opts.EnableLog

\* positions of a document's activation after the flush of testDocument
PastFlush == {"release", "deferred", "exited", "ret"}
OutOf(d) == SelectSeq(out, LAMBDA x : x.by = d)
FoundBy(d) == SelectSeq(issues, LAMBDA x : x.by = d)

\* C8: under LogSort = "document" every issue found while testing a document,
\* the favicon issue of the post-check included, is emitted in the document's
\* one contiguous block, flushed once when its test finishes; blocks of
\* different documents do not interleave.
C8_DocumentBlocks ==
  opts.LogSort = "document" =>
    \A d \in Docs :
      /\ pc[d] \in PastFlush => OutOf(d) = FoundBy(d)
      /\ pc[d] \notin PastFlush => OutOf(d) = <<>>
      /\ \A i, j, k \in DOMAIN out :
           (i < j /\ j < k /\ out[i].by = d /\ out[k].by = d) => out[j].by = d

\* the goroutines of testDocuments that have ended, normally or by a panic
Ended(d) == tmode[d] = "go" /\ pc[d] \in {"exited", "panicked"}

\* C5: every document-pool token taken for a document task is given back
\* exactly once on every exit path of the task, a panic included, so none is
\* held when testDocuments returns.
C5_TokenReleased ==
  ConcurrentRun =>
    /\ \A d \in Docs : released[d] <= 1 /\ (Ended(d) => released[d] = 1)
    /\ mainpc \in AfterTestDocuments => conc = 0

\* the checker calls document d makes for reference k: one for each check of
\* each node that names k
RECURSIVE OccurrencesIn(_, _)
OccurrencesIn(q, k) ==
  IF q = <<>> THEN 0
  ELSE OccurrencesIn(SubSeq(q, 1, Len(q) - 1), k)
         + (IF q[Len(q)].key = k THEN Len(ChecksFor(q[Len(q)].tag)) ELSE 0)
Occurrences(d, k) == OccurrencesIn(env.documents[d].nodes, k)

\* the stored issues of document d for reference k
IssuesFor(d, k) == {i \in DOMAIN issues : issues[i].doc = d /\ issues[i].ref = k}

\* positions of an activation once all its nodes are traversed
PastNodes == {"post", "flush", "release", "deferred", "exited", "ret"}

\* C11: every occurrence of a broken reference in every document emits its
\* own Error issue although the reference is resolved once: a document past
\* its traversal holds one issue per occurrence, the resolver ran at most once
\* per key, and a finished run over ScenarioDocs documents with ScenarioLinks
\* broken links each (favicon and doctype checks off) counts
\* ScenarioDocs * ScenarioLinks errors (3 documents, 2 links: 6).
C11_IssuePerOccurrence ==
  /\ \A d \in Docs, k \in env.broken :
       /\ pc[d] \in PastNodes => Cardinality(IssuesFor(d, k)) = Occurrences(d, k)
       /\ \A i \in IssuesFor(d, k) : issues[i].level = LevelError
       /\ calls[k] <= 1
  /\ (FullRunOver /\ env.documents = ScenarioSite)
       => CountErrors = ScenarioDocs * ScenarioLinks

\* C11 witness: a concurrent run over the ScenarioDocs documents is over, the
\* shared missing file was probed once and every link of every document has
\* its issue.
C11_Witness ==
  /\ FullRunOver /\ opts.TestFilesConcurrently
  /\ env.documents = ScenarioSite
  /\ calls[1] = 1
  /\ CountErrors = ScenarioDocs * ScenarioLinks
  /\ \A d \in Docs : Cardinality(IssuesFor(d, 1)) = ScenarioLinks

\* the issues of the two presence checks of document d that are stored
DoctypeStored(d) == \E i \in DOMAIN issues : issues[i] = DoctypeIssue(d)
FaviconStored(d) == \E i \in DOMAIN issues : issues[i] = FaviconIssue(d)

\* C12: in a document task the favicon-presence check and the
\* doctype-presence check both run only after every node of the document has
\* been traversed: an issue of either check is stored only once the task is
\* past its traversal, and nothing is stored before the parse.
C12_ChecksAfterTraversal ==
  \A d \in Docs :
    /\ DoctypeStored(d) => pc[d] \in PastNodes
    /\ FaviconStored(d) => pc[d] \in PastNodes
    /\ pc[d] \in {"idle", "parse"} => FoundBy(d) = <<>>

\* the tag table of the claim: the option that enables a tag's checks, the
\* checker function called, and the attributes checked, in order
OptionOf(tag) ==
  IF tag = "a" THEN "CheckAnchors"
  ELSE IF tag = "link" THEN "CheckLinks"
  ELSE IF tag = "img" THEN "CheckImages"
  ELSE IF tag = "script" THEN "CheckScripts"
  ELSE IF tag = "meta" THEN "CheckMeta"
  ELSE "CheckGeneric"
CheckerOf(tag) ==
  IF tag \in {"a", "link"} THEN "checkLink"
  ELSE IF tag = "img" THEN "checkImg"
  ELSE IF tag = "script" THEN "checkScript"
  ELSE IF tag = "meta" THEN "checkMeta"
  ELSE "checkGeneric"
AttrsOf(tag) ==
  IF tag \in {"a", "link", "img", "script", "meta"} THEN <<"">>
  ELSE IF tag = "area" THEN <<"href">>
  ELSE IF tag \in {"blockquote", "del", "ins", "q"} THEN <<"cite">>
  ELSE IF tag \in {"iframe", "input", "audio", "embed", "source", "track"}
  THEN <<"src">>
  ELSE IF tag = "object" THEN <<"data">>
  ELSE <<"src", "poster">>
\* the calls the table asks for on a node of the given tag
TableCalls(tag) ==
  IF tag \notin TableTags \/ ~opts[OptionOf(tag)] THEN <<>>
  ELSE [a \in DOMAIN AttrsOf(tag) |->
          [fn |-> CheckerOf(tag), attr |-> AttrsOf(tag)[a]]]
RECURSIVE TableCallsOf(_)
TableCallsOf(q) ==
  IF q = <<>> THEN <<>>
  ELSE TableCallsOf(SubSeq(q, 1, Len(q) - 1)) \o TableCalls(q[Len(q)].tag)

IsPrefix(p, q) == Len(p) <= Len(q) /\ SubSeq(q, 1, Len(p)) = p

\* C13: for every tag and every combination of the Check* options the
\* checker calls made for a document's nodes are exactly those of the tag
\* table, in node order: at every moment a prefix of them, and all of them
\* once the traversal is over.
C13_TagTable ==
  \A d \in Docs :
    /\ IsPrefix(checks[d], TableCallsOf(env.documents[d].nodes))
    /\ pc[d] \in PastNodes => checks[d] = TableCallsOf(env.documents[d].nodes)

\* C13 witness: with only the generic checks enabled, the test of a document
\* holding an anchor and a video element is over after exactly two calls, the
\* video's src and then its poster.
C13_Witness ==
  \E d \in Docs :
    /\ pc[d] = "exited"
    /\ env.documents[d].nodes[1].tag = "a" /\ ~opts.CheckAnchors
    /\ checks[d] = <<[fn |-> "checkGeneric", attr |-> "src"],
                     [fn |-> "checkGeneric", attr |-> "poster"]>>

\* the documents the run has to test: the resolved one in single-document
\* mode, every discovered one otherwise
ToTest == IF opts.FilePath # "" THEN {env.resolved} ELSE Docs

\* every document task of the run is over (its test was carried out once, or
\* it died of a panic) and none was left out
TasksOver ==
  /\ \A d \in ToTest : (pc[d] = "exited" /\ tested[d] = 1) \/ pc[d] = "panicked"
  /\ \A d \in Docs \ ToTest : pc[d] = "idle"

\* the cache holds the result of every resolution made in the run
SnapshotComplete ==
  /\ inflight = {}
  /\ \A k \in Keys : calls[k] > 0 => cache[k].status = Live(k)

\* C14: the cache is persisted and the log written only after every document
\* task of the run has completed, the persisted snapshot holding every
\* resolution made; the cache is written only if EnableCache is set and the
\* log only if EnableLog is set, and a run that reaches its end has written
\* each of them exactly when its option is set.
C14_PersistAtEnd ==
  /\ mainpc \in {"wcache", "wlog"} \/ cacheWritten \/ logWritten
       => TasksOver /\ SnapshotComplete
  /\ cacheWritten => opts.EnableCache
  /\ logWritten => opts.EnableLog
  /\ (RunOver /\ ~opts.NoRun)
       => (cacheWritten <=> opts.EnableCache) /\ (logWritten <=> opts.EnableLog)

\* C14 witness: a concurrent run with the cache on and the log off is over:
\* the cache was written, holding the one resolution of the broken reference,
\* and the log was not.
C14_Witness ==
  /\ RunOver /\ opts.TestFilesConcurrently /\ opts.FilePath = ""
  /\ opts.EnableCache /\ ~opts.EnableLog
  /\ cacheWritten /\ ~logWritten
  /\ calls[1] = 1 /\ cache[1].status = "invalid"

SequentialRun == ~opts.TestFilesConcurrently /\ opts.FilePath = ""

\* the issues the tests of documents 1..n are due to have stored, document
\* after document
RECURSIVE DueUpTo(_)
DueUpTo(n) == IF n = 0 THEN <<>> ELSE DueUpTo(n - 1) \o IssuesDue(n)

\* what the per-document flushes of the documents 1..n that are past their
\* flush have printed: for each in turn, the issues it owns
RECURSIVE FlushedUpTo(_)
FlushedUpTo(n) ==
  IF n = 0 THEN <<>>
  ELSE FlushedUpTo(n - 1)
         \o (IF pc[n] \in PastFlush
             THEN SelectSeq(AllIssues(n), LAMBDA x : x.doc = n) ELSE <<>>)

\* C15: in sequential mode the documents are tested one at a time in
\* discovery order: a document's test has started only if the test of every
\* earlier document, its post-checks and its flush included, is finished; so
\* the stored and the emitted issues are, in this order, a function of the
\* input and of how far the run has come.
C15_OneAtATime ==
  SequentialRun =>
    /\ \A d \in Docs :
         pc[d] # "idle" =>
           \A e \in Docs : e < d => pc[e] = "exited" /\ tested[e] = 1
    /\ Cardinality({d \in Docs : pc[d] \notin {"idle", "exited"}}) <= 1
    /\ issues = DueUpTo(CountDocuments)
    /\ out = IF PrintImmediately THEN issues ELSE FlushedUpTo(CountDocuments)

\* C15 witness: under per-document sort a sequential run is inside the
\* traversal of its second document, the first document's block is printed
\* and a second-document issue is stored but not yet printed.
C15_Witness ==
  /\ SequentialRun /\ opts.LogSort = "document"
  /\ pc[1] = "exited" /\ pc[2] \in InChecks
  /\ out # <<>> /\ \A i \in DOMAIN out : out[i].doc = 1
  /\ \E i \in DOMAIN issues : issues[i].doc = 2

\* the advisory issue as the claim describes it: warning level, no document
IsAdvisory(x) == x.level = LevelWarning /\ x.text = "concurrent" /\ x.doc = NoDoc
Advisories == {i \in DOMAIN issues : IsAdvisory(issues[i])}
\* positions of the orchestrator before the first statement of testDocuments
BeforeTestDocuments == {"norun", "openroot", "discover", "dispatch", "td"}

\* C16: in concurrent mode exactly one warning-level advisory issue is added
\* to the store, before any document task starts: it is the first stored
\* issue from the moment testDocuments has begun, and the only warning; in
\* sequential mode no issue of warning level is ever stored.
C16_AdvisoryFirst ==
  /\ ConcurrentRun =>
       /\ WarningIndices = Advisories
       /\ mainpc \in BeforeTestDocuments => issues = <<>>
       /\ mainpc \in (InTestDocuments \ {"td"}) \cup AfterTestDocuments
            => Advisories = {1}
       /\ (\E d \in Docs : pc[d] # "idle") => Advisories = {1}
  /\ SequentialRun => WarningIndices = {}

\* C16 witness: in a concurrent run the first document task has just been
\* started and the advisory is the only issue in the store.
C16_Witness ==
  /\ ConcurrentRun
  /\ pc[1] = "parse" /\ \A d \in Docs : d > 1 => pc[d] = "idle"
  /\ Len(issues) = 1 /\ IsAdvisory(issues[1])

\* C17: under LogSort = "seq" every issue is emitted as it is stored, so the
\* emitted order is the store's insertion order; under either LogSort value
\* one emission mechanism is at work, so no issue is ever emitted twice and,
\* when the run is over, every stored issue has been emitted exactly once.
C17_EmittedOnce ==
  /\ opts.LogSort = "seq" => out = issues
  /\ BagOfSeq(out) \sqsubseteq BagOfSeq(issues)
  /\ (RunOver /\ ~opts.NoRun) => BagOfSeq(out) = BagOfSeq(issues)

SingleRun == opts.FilePath # "" /\ env.resolved # NoDoc /\ ~opts.NoRun

\* C18: in single-document mode the resolved document, and no other, is
\* tested, once and in the calling task; no document pool is set up
\* (testDocuments is not entered, no token or WaitGroup count exists), and no
\* warning-level advisory is stored, TestFilesConcurrently set or not.
C18_SingleDocument ==
  SingleRun =>
    /\ \A d \in Docs \ {env.resolved} :
         pc[d] = "idle" /\ tested[d] = 0 /\ checks[d] = <<>>
    /\ tmode[env.resolved] = "call" /\ tested[env.resolved] <= 1
    /\ RunOver => tested[env.resolved] = 1 /\ pc[env.resolved] = "exited"
    /\ mainpc \notin InTestDocuments
    /\ conc = 0 /\ wg = 0 /\ released = [d \in Docs |-> 0]
    /\ WarningIndices = {}
    /\ \A i \in DOMAIN issues : issues[i].by = env.resolved

\* C18 witness: with TestFilesConcurrently set, a run for the last discovered
\* document is over: that document was tested and reported, the first one
\* was not touched.
C18_Witness ==
  /\ SingleRun /\ opts.TestFilesConcurrently /\ RunOver
  /\ env.resolved = CountDocuments /\ env.resolved # 1
  /\ tested[env.resolved] = 1 /\ pc[1] = "idle"
  /\ issues # <<>>

\* C19: with NoRun set Test returns the session as constructed (empty issue
\* store, fetch limiter with no token taken, cache as loaded) and performs
\* none of the run: the root directory is not checked (a missing root does
\* not abort), no document is discovered or tested, no issue is added
\* (CountErrors() is 0), and neither the cache nor the log is written.
C19_NoRun ==
  opts.NoRun =>
    /\ mainpc \in {"norun", "returned"}
    /\ \A d \in Docs : pc[d] = "idle" /\ tested[d] = 0 /\ checks[d] = <<>>
    /\ issues = <<>> /\ out = <<>> /\ CountErrors = 0
    /\ http = 0 /\ inflight = {}
    /\ cache = (IF opts.EnableCache THEN env.loaded ELSE EmptyCache)
    /\ \A k \in Keys : calls[k] = 0
    /\ ~cacheWritten /\ ~logWritten

\* C19 witness: Test has returned under NoRun although the root directory
\* does not exist and the cache and the log are switched on; the loaded
\* cache entry is in place.
C19_Witness ==
  /\ opts.NoRun /\ RunOver
  /\ env.root = "missing" /\ opts.EnableCache /\ opts.EnableLog
  /\ cache[1].status = "valid"

====
